---- MODULE Spec2Model ----
(***************************************************************************)
(* AppCache-Lock (appcache_lock.py): budgeted directory selection          *)
(* (prioritize_directories, select_directories_within_limit) and the       *)
(* concurrent locking run (preload_applications, _lock_directory,          *)
(* _signal_handler, _cleanup_processes).                                   *)
(*                                                                         *)
(* A directory path is identified by its position in unique_dirs, the      *)
(* deduplicated list preload_applications hands to prioritize_directories. *)
(***************************************************************************)
EXTENDS Integers, Sequences, FiniteSets, TLC

\* ---------------------------------------------------------------- bounds
MaxDirs == 3
MaxSize == 2
MaxMemTotal == 8
MaxWorkers == 2
MaxRunDirs == 2
MaxFairLoad == 3

\* --memory-limit values: the default 50 and the largest accepted value 90
Percents == {50, 90}

VARIABLES
    fs_size,               \* fs_size[d]: what get_directory_size(d) measures
    app_dirs,              \* directories of the configured application commands
    memory_total,          \* psutil.virtual_memory().total
    memory_limit_percent,  \* self.memory_limit_percent
    pc,                    \* position of the main thread
    dir_info_list,         \* result of prioritize_directories
    memory_limit,          \* local of select_directories_within_limit
    walk_idx,              \* position of the for loop over dir_info_list
    selected_dirs,         \* local of select_directories_within_limit
    total_size,            \* local of select_directories_within_limit
    decisions,             \* the DIRECTORY ANALYSIS lines logged by the loop
    run,                   \* 1 on the first selection, 2 on a repeated one
    first_result,          \* what the first selection returned and logged
    vmtouch_ok,            \* whether `vmtouch --version` runs
    max_workers,           \* --max-workers
    submit_idx,            \* position of the comprehension over selected_dirs
    work_queue,            \* work items submitted to the executor, not yet taken
    future,                \* future[d]: state of the future submitted for d
    worker,                \* worker[w]: position of pool thread w in _lock_directory
    child,                 \* child[d]: the process Popen started for d
    term_sent,             \* children process.terminate() was called on
    kill_sent,             \* children process.kill() was called on
    processes,             \* self.processes
    locked_dirs,           \* self.locked_dirs
    outcomes,              \* the future.result() values the as_completed loop got
    success_count,         \* local of preload_applications
    attempts,              \* attempts[d]: calls of _lock_directory for d
    spawned,               \* spawned[d]: children Popen started for d
    signalled,             \* whether SIGINT/SIGTERM was delivered
    h_pc,                  \* position of the main thread inside _signal_handler
    h_idx,                 \* position of the for loop of _cleanup_processes
    result,                \* what preload_applications returned
    exit_code              \* status the process exited with, -1 while it runs

inputVars == <<fs_size, app_dirs, memory_total, memory_limit_percent>>
selVars == <<dir_info_list, memory_limit, walk_idx, selected_dirs, total_size, decisions>>
poolVars == <<submit_idx, work_queue, future, worker, outcomes, success_count>>
procVars == <<child, term_sent, kill_sent, processes, locked_dirs, attempts, spawned>>
sigVars == <<signalled, h_pc, h_idx>>
execVars == <<vmtouch_ok, max_workers, poolVars, procVars, sigVars, result, exit_code>>
vars == <<inputVars, pc, selVars, run, first_result, execVars>>

\* ------------------------------------------------------------ pure parts

\* The deduplicated directory list: paths 1..n in input order.
unique_dirs == [i \in 1..Len(fs_size) |-> i]

get_directory_size(directory) == fs_size[directory]

\* int(memory_info.total * (self.memory_limit_percent / 100))
get_memory_limit == (memory_total * memory_limit_percent) \div 100

ResourceDirInfo(directory) ==
    [path |-> directory,
     size |-> get_directory_size(directory),
     priority |-> 2,
     source |-> "resource"]

\* The DirectoryInfo built for a directory of positive size.
MakeDirInfo(directory) ==
    [path |-> directory,
     size |-> get_directory_size(directory),
     priority |-> IF directory \in app_dirs THEN 1 ELSE 2,
     source |-> IF directory \in app_dirs THEN "app" ELSE "resource"]

KeepsEmpty(size) == size >= 0

\* if size > 0
HasContent(size) == size > 0

\* The for loop of prioritize_directories over the first k directories.
RECURSIVE CollectDirInfo(_)
CollectDirInfo(k) ==
    IF k = 0 THEN <<>>
    ELSE LET rest == CollectDirInfo(k - 1)
             directory == unique_dirs[k]
         IN IF HasContent(get_directory_size(directory))
            THEN Append(rest, MakeDirInfo(directory))
            ELSE rest

KeyBySizeAscending(a, b) ==
    \/ a.priority < b.priority
    \/ a.priority = b.priority /\ a.size < b.size

KeyNotAfter(a, b) ==
    \/ a.priority < b.priority
    \/ a.priority = b.priority /\ (0 - a.size) <= (0 - b.size)

\* key=lambda x: (x.priority, -x.size): a sorts strictly before b.
SortKeyLess(a, b) ==
    \/ a.priority < b.priority
    \/ a.priority = b.priority /\ (0 - a.size) < (0 - b.size)

\* list.sort is stable: x, which came after every element of s in the
\* input, goes behind the elements whose key is not greater than its own.
RECURSIVE InsertSorted(_, _)
InsertSorted(x, s) ==
    IF s = <<>> THEN <<x>>
    ELSE IF SortKeyLess(x, Head(s)) THEN <<x>> \o s
         ELSE <<Head(s)>> \o InsertSorted(x, Tail(s))

RECURSIVE StableSort(_)
StableSort(s) ==
    IF s = <<>> THEN <<>>
    ELSE InsertSorted(s[Len(s)], StableSort(SubSeq(s, 1, Len(s) - 1)))

prioritize_directories == StableSort(CollectDirInfo(Len(unique_dirs)))

FitsStrictly(total, size, limit) == total + size < limit

FitsIgnoringSize(total, size, limit) == total <= limit

\* if total_size + dir_info.size <= memory_limit
Fits(total, size, limit) == total + size <= limit

StopAtSkip(i, accepted) == IF accepted THEN i + 1 ELSE Len(dir_info_list) + 1

\* The for loop goes on to the next record after either verdict.
NextIndex(i, accepted) == i + 1

LineSaysSelected(d, status) ==
    [path |-> d.path, priority |-> d.priority, source |-> d.source,
     size |-> d.size, status |-> "SELECTED"]

\* the line logged for a record: priority, source, size, status, directory
LogLine(d, status) ==
    [path |-> d.path, priority |-> d.priority, source |-> d.source,
     size |-> d.size, status |-> status]

Paths(s) == {s[k] : k \in 1..Len(s)}

RECURSIVE SumSizes(_)
SumSizes(s) == IF s = <<>> THEN 0 ELSE Head(s).size + SumSizes(Tail(s))

\* ------------------------------------------------------------- the inputs

Catalogs ==
    UNION {[1..n -> 0..MaxSize] : n \in 0..MaxDirs}

\* Scenario A of the specification: sizes 100, 80, 50, the first two backing
\* applications, under a budget of 150.
ScenarioA ==
    /\ fs_size = <<100, 80, 50>>
    /\ app_dirs = {1, 2}
    /\ memory_total = 300
    /\ memory_limit_percent = 50

SmallInputs ==
    /\ fs_size \in Catalogs
    /\ app_dirs \in SUBSET (1..Len(fs_size))
    /\ memory_total \in 0..MaxMemTotal
    /\ memory_limit_percent \in Percents

NoSelectionYet ==
    /\ dir_info_list = <<>>
    /\ memory_limit = 0
    /\ walk_idx = 1
    /\ selected_dirs = <<>>
    /\ total_size = 0
    /\ decisions = <<>>
    /\ run = 1
    /\ first_result = <<>>

\* The instance after __init__: nothing locked, no process started.
NothingStarted ==
    /\ submit_idx = 1
    /\ work_queue = <<>>
    /\ future = [d \in 1..Len(fs_size) |-> "none"]
    /\ worker = [w \in 1..max_workers |-> [pc |-> "idle", dir |-> 0]]
    /\ child = [d \in 1..Len(fs_size) |-> "none"]
    /\ term_sent = {}
    /\ kill_sent = {}
    /\ processes = <<>>
    /\ locked_dirs = {}
    /\ outcomes = <<>>
    /\ success_count = 0
    /\ attempts = [d \in 1..Len(fs_size) |-> 0]
    /\ spawned = [d \in 1..Len(fs_size) |-> 0]
    /\ signalled = FALSE
    /\ h_pc = "none"
    /\ h_idx = 1
    /\ result = "none"
    /\ exit_code = -1

InitSelect ==
    /\ SmallInputs \/ ScenarioA
    /\ pc = "prioritize"
    /\ NoSelectionYet
    /\ vmtouch_ok = TRUE
    /\ max_workers = 1
    /\ NothingStarted

MainIgnoresHandler(p) == pc = p

\* The main thread is at position p and is not running the signal handler.
MainAt(p) == pc = p /\ h_pc = "none"

\* ------------------------------------------------------------ selection

\* dir_info_list = self.prioritize_directories(unique_dirs)
Prioritize ==
    /\ MainAt("prioritize")
    /\ dir_info_list' = prioritize_directories
    /\ pc' = "select_begin"
    /\ UNCHANGED <<inputVars, memory_limit, walk_idx, selected_dirs, total_size,
                   decisions, run, first_result, execVars>>

\* select_directories_within_limit up to its for loop
SelectBegin ==
    /\ MainAt("select_begin")
    /\ memory_limit' = get_memory_limit
    /\ selected_dirs' = <<>>
    /\ total_size' = 0
    /\ decisions' = <<>>
    /\ walk_idx' = 1
    /\ pc' = "select_loop"
    /\ UNCHANGED <<inputVars, dir_info_list, run, first_result, execVars>>

\* one iteration of the for loop
SelectStep ==
    /\ MainAt("select_loop")
    /\ walk_idx <= Len(dir_info_list)
    /\ LET dir_info == dir_info_list[walk_idx]
           accepted == Fits(total_size, dir_info.size, memory_limit)
       IN /\ IF accepted
             THEN /\ selected_dirs' = Append(selected_dirs, dir_info.path)
                  /\ total_size' = total_size + dir_info.size
                  /\ decisions' = Append(decisions, LogLine(dir_info, "SELECTED"))
             ELSE /\ decisions' = Append(decisions, LogLine(dir_info, "SKIPPED"))
                  /\ UNCHANGED <<selected_dirs, total_size>>
          /\ walk_idx' = NextIndex(walk_idx, accepted)
    /\ UNCHANGED <<inputVars, pc, dir_info_list, memory_limit, run, first_result, execVars>>

ReturnsOnFirstSelected == selected_dirs # <<>>

\* the for loop has gone through all of dir_info_list
WalkExhausted == walk_idx > Len(dir_info_list)

\* return selected_dirs, total_size
SelectReturn ==
    /\ MainAt("select_loop")
    /\ WalkExhausted
    /\ pc' = "selected"
    /\ UNCHANGED <<inputVars, selVars, run, first_result, execVars>>

\* prioritize and select called once more on the same instance and inputs
Rerun ==
    /\ MainAt("selected")
    /\ run = 1
    /\ first_result' = <<selected_dirs, total_size, decisions>>
    /\ run' = 2
    /\ pc' = "prioritize"
    /\ UNCHANGED <<inputVars, selVars, execVars>>

NextSelect == Prioritize \/ SelectBegin \/ SelectStep \/ SelectReturn \/ Rerun

SpecSelect == InitSelect /\ [][NextSelect]_vars


\* ------------------------------------------------------------ the run

\* The inputs of the full run: Scenario A, or up to MaxRunDirs directories of
\* size 1, none backing an application, under a budget of 0 (nothing fits)
\* or of MaxRunDirs (everything fits).
RunInputs ==
    \/ ScenarioA
    \/ /\ fs_size \in {[d \in 1..n |-> 1] : n \in 0..MaxRunDirs}
       /\ app_dirs = {}
       /\ memory_total \in {0, 2 * MaxRunDirs}
       /\ memory_limit_percent = 50

Init ==
    /\ RunInputs
    /\ pc = "check_deps"
    /\ NoSelectionYet
    /\ vmtouch_ok \in BOOLEAN
    /\ max_workers \in 1..MaxWorkers
    /\ NothingStarted

\* ThreadPoolExecutor(max_workers=max_workers)
PoolSize == max_workers

LiveChildren == {d \in DOMAIN child : child[d] = "running"}

Finished(d) == future[d] \in {"True", "False"}

\* preload_applications returns value v
Return(v) ==
    /\ result' = v
    /\ pc' = "main_exit"

DependenciesAssumed == TRUE

\* _check_dependencies: True when `vmtouch --version` runs and exits zero
check_dependencies == vmtouch_ok

\* if not self._check_dependencies(): return False
CheckDependencies ==
    /\ MainAt("check_deps")
    /\ IF check_dependencies
       THEN pc' = "load_config" /\ UNCHANGED result
       ELSE Return("False")
    /\ UNCHANGED <<inputVars, selVars, run, first_result, vmtouch_ok, max_workers,
                   poolVars, procVars, sigVars, exit_code>>

\* configuration loading, validation and deduplication: nothing configured or
\* no valid directory returns False
LoadConfig ==
    /\ MainAt("load_config")
    /\ IF Len(unique_dirs) = 0
       THEN Return("False")
       ELSE pc' = "prioritize" /\ UNCHANGED result
    /\ UNCHANGED <<inputVars, selVars, run, first_result, vmtouch_ok, max_workers,
                   poolVars, procVars, sigVars, exit_code>>

\* if not selected_dirs: return False; otherwise the with block is entered
StartLocking ==
    /\ MainAt("selected")
    /\ IF selected_dirs = <<>>
       THEN Return("False")
       ELSE pc' = "submit" /\ UNCHANGED result
    /\ UNCHANGED <<inputVars, selVars, run, first_result, vmtouch_ok, max_workers,
                   poolVars, procVars, sigVars, exit_code>>

\* executor.submit(self._lock_directory, directory, timeout) for the next
\* directory of selected_dirs
Submit ==
    /\ MainAt("submit")
    /\ submit_idx <= Len(selected_dirs)
    /\ LET d == selected_dirs[submit_idx]
       IN /\ future' = [future EXCEPT ![d] = "queued"]
          /\ work_queue' = Append(work_queue, d)
    /\ submit_idx' = submit_idx + 1
    /\ UNCHANGED <<inputVars, pc, selVars, run, first_result, vmtouch_ok, max_workers,
                   worker, outcomes, success_count, procVars, sigVars, result,
                   exit_code>>

\* the comprehension is exhausted: the as_completed loop starts
SubmitDone ==
    /\ MainAt("submit")
    /\ submit_idx > Len(selected_dirs)
    /\ pc' = "collect"
    /\ UNCHANGED <<inputVars, selVars, run, first_result, execVars>>

\* a pool thread takes the next work item and calls _lock_directory; the
\* pool threads are interchangeable, the idle one of lowest index takes it
WorkerTake(w) ==
    /\ worker[w].pc = "idle"
    /\ \A v \in 1..(w - 1) : worker[v].pc # "idle"
    /\ work_queue # <<>>
    /\ LET d == Head(work_queue)
       IN /\ worker' = [worker EXCEPT ![w] = [pc |-> "popen", dir |-> d]]
          /\ future' = [future EXCEPT ![d] = "running"]
          /\ attempts' = [attempts EXCEPT ![d] = @ + 1]
    /\ work_queue' = Tail(work_queue)
    /\ UNCHANGED <<inputVars, pc, selVars, run, first_result, vmtouch_ok, max_workers,
                   submit_idx, outcomes, success_count, child, term_sent, kill_sent,
                   processes, locked_dirs, spawned, sigVars, result, exit_code>>

\* process = subprocess.Popen(cmd, ...) starts the child
WorkerPopen(w) ==
    /\ worker[w].pc = "popen"
    /\ LET d == worker[w].dir
       IN /\ child' = [child EXCEPT ![d] = "running"]
          /\ spawned' = [spawned EXCEPT ![d] = @ + 1]
    /\ worker' = [worker EXCEPT ![w].pc = "append"]
    /\ UNCHANGED <<inputVars, pc, selVars, run, first_result, vmtouch_ok, max_workers,
                   submit_idx, work_queue, future, outcomes, success_count, term_sent,
                   kill_sent, processes, locked_dirs, attempts, sigVars, result,
                   exit_code>>

RequeueOnFailure(queue, d, success) == IF success THEN queue ELSE Append(queue, d)

DropQueueOnFailure(queue, d, success) == IF success THEN queue ELSE <<>>

\* return directory, True / return directory, False: _lock_directory reports
\* the result of its one attempt and leaves the executor's queue alone
QueueAfterAttempt(queue, d, success) == queue

\* subprocess.Popen raises (the command cannot be started): the except
\* clause returns (directory, False)
WorkerPopenFails(w) ==
    /\ worker[w].pc = "popen"
    /\ future' = [future EXCEPT ![worker[w].dir] = "False"]
    /\ work_queue' = QueueAfterAttempt(work_queue, worker[w].dir, FALSE)
    /\ worker' = [worker EXCEPT ![w] = [pc |-> "idle", dir |-> 0]]
    /\ UNCHANGED <<inputVars, pc, selVars, run, first_result, vmtouch_ok, max_workers,
                   submit_idx, outcomes, success_count, procVars, sigVars,
                   result, exit_code>>

NotRegistered(procs, d) == procs

\* self.processes.append(process)
Registered(procs, d) == Append(procs, d)

\* the worker registers the child it has started
WorkerAppend(w) ==
    /\ worker[w].pc = "append"
    /\ processes' = Registered(processes, worker[w].dir)
    /\ worker' = [worker EXCEPT ![w].pc = "communicate"]
    /\ UNCHANGED <<inputVars, pc, selVars, run, first_result, vmtouch_ok, max_workers,
                   submit_idx, work_queue, future, outcomes, success_count, child,
                   term_sent, kill_sent, locked_dirs, attempts, spawned, sigVars,
                   result, exit_code>>

ReturnsAtOnce(d) == TRUE

BlocksForever(d) == FALSE

TimeoutCountsAsSuccess(rc) == rc \in {"rc0", "rc124"}

\* if process.returncode == 0
LockSucceeded(rc) == rc = "rc0"

\* process.communicate() returns once the child has exited
CommunicateReturns(d) == child[d] # "running"

\* _, stderr = process.communicate() and the test of process.returncode
WorkerCommunicate(w) ==
    /\ worker[w].pc = "communicate"
    /\ LET d == worker[w].dir
       IN /\ CommunicateReturns(d)
          /\ IF LockSucceeded(child[d])
             THEN /\ locked_dirs' = locked_dirs \cup {d}
                  /\ future' = [future EXCEPT ![d] = "True"]
             ELSE /\ future' = [future EXCEPT ![d] = "False"]
                  /\ UNCHANGED locked_dirs
          /\ work_queue' = QueueAfterAttempt(work_queue, d, LockSucceeded(child[d]))
    /\ worker' = [worker EXCEPT ![w] = [pc |-> "idle", dir |-> 0]]
    /\ UNCHANGED <<inputVars, pc, selVars, run, first_result, vmtouch_ok, max_workers,
                   submit_idx, outcomes, success_count, child, term_sent,
                   kill_sent, processes, attempts, spawned, sigVars, result, exit_code>>

\* The child exits: vmtouch succeeded (rc0), failed (rc1), was stopped by the
\* timeout command (rc124), or died of the signal cleanup sent it.
ChildExit(d) ==
    /\ child[d] = "running"
    /\ \E rc \in {"rc0", "rc1", "rc124"}
                 \cup (IF d \in term_sent \cup kill_sent THEN {"signal"} ELSE {}) :
          child' = [child EXCEPT ![d] = rc]
    /\ UNCHANGED <<inputVars, pc, selVars, run, first_result, vmtouch_ok, max_workers,
                   poolVars, term_sent, kill_sent, processes, locked_dirs, attempts,
                   spawned, sigVars, result, exit_code>>

\* for future in as_completed(future_to_dir): one finished future is yielded
Collect ==
    /\ MainAt("collect")
    /\ \E d \in Paths(selected_dirs) :
          /\ Finished(d)
          /\ \A k \in 1..Len(outcomes) : outcomes[k].path # d
          /\ outcomes' = Append(outcomes, [path |-> d, success |-> future[d] = "True"])
          /\ success_count' = IF future[d] = "True" THEN success_count + 1
                                                    ELSE success_count
    /\ UNCHANGED <<inputVars, pc, selVars, run, first_result, vmtouch_ok, max_workers,
                   submit_idx, work_queue, future, worker, procVars, sigVars, result,
                   exit_code>>

SomeLocked(count, selected) == count > 0

\* return success_count == len(selected_dirs)
AllLocked(count, selected) == count = Len(selected)

\* the loop is exhausted, the with block is left, the statistics are logged
\* and preload_applications returns
CollectDone ==
    /\ MainAt("collect")
    /\ Len(outcomes) = Len(selected_dirs)
    /\ Return(IF AllLocked(success_count, selected_dirs) THEN "True" ELSE "False")
    /\ UNCHANGED <<inputVars, selVars, run, first_result, vmtouch_ok, max_workers,
                   poolVars, procVars, sigVars, exit_code>>

\* sys.exit(0 if success else 1)
MainExit ==
    /\ MainAt("main_exit")
    /\ pc' = "exited"
    /\ exit_code' = IF result = "True" THEN 0 ELSE 1
    /\ UNCHANGED <<inputVars, selVars, run, first_result, vmtouch_ok, max_workers,
                   poolVars, procVars, sigVars, result>>

\* SIGINT or SIGTERM is delivered: the main thread enters _signal_handler.
\* One signal is delivered per run, at any position of the main thread.
SignalArrives ==
    /\ pc # "exited"
    /\ ~signalled
    /\ signalled' = TRUE
    /\ h_pc' = "loop"
    /\ h_idx' = 1
    /\ UNCHANGED <<inputVars, pc, selVars, run, first_result, vmtouch_ok, max_workers,
                   poolVars, procVars, result, exit_code>>

PollSkipped(d) == TRUE

\* process.poll() is None
StillRunning(d) == child[d] = "running"

\* for process in self.processes: if process.poll() is None: terminate()
CleanupNext ==
    /\ h_pc = "loop"
    /\ h_idx <= Len(processes)
    /\ IF StillRunning(processes[h_idx])
       THEN /\ term_sent' = term_sent \cup {processes[h_idx]}
            /\ h_pc' = "wait"
            /\ UNCHANGED h_idx
       ELSE /\ h_idx' = h_idx + 1
            /\ UNCHANGED <<term_sent, h_pc>>
    /\ UNCHANGED <<inputVars, pc, selVars, run, first_result, vmtouch_ok, max_workers,
                   poolVars, child, kill_sent, processes, locked_dirs, attempts,
                   spawned, signalled, result, exit_code>>

\* process.wait(timeout=5) returns: the child has exited
CleanupWaited ==
    /\ h_pc \in {"wait", "killwait"}
    /\ child[processes[h_idx]] # "running"
    /\ h_pc' = "loop"
    /\ h_idx' = h_idx + 1
    /\ UNCHANGED <<inputVars, pc, selVars, run, first_result, vmtouch_ok, max_workers,
                   poolVars, procVars, signalled, result, exit_code>>

\* process.wait(timeout=5) raises TimeoutExpired: process.kill()
CleanupKill ==
    /\ h_pc = "wait"
    /\ child[processes[h_idx]] = "running"
    /\ kill_sent' = kill_sent \cup {processes[h_idx]}
    /\ h_pc' = "killwait"
    /\ UNCHANGED <<inputVars, pc, selVars, run, first_result, vmtouch_ok, max_workers,
                   poolVars, child, term_sent, processes, locked_dirs, attempts,
                   spawned, signalled, h_idx, result, exit_code>>

\* the list iterator finds no further element of self.processes: the for
\* loop is left
CleanupLoopEnd ==
    /\ h_pc = "loop"
    /\ h_idx > Len(processes)
    /\ h_pc' = "clear"
    /\ UNCHANGED <<inputVars, pc, selVars, run, first_result, vmtouch_ok, max_workers,
                   poolVars, procVars, signalled, h_idx, result, exit_code>>

\* self.processes.clear() and sys.exit(0): inside the with block SystemExit
\* first runs the executor's shutdown(wait=True), elsewhere the process exits
CleanupDone ==
    /\ h_pc = "clear"
    /\ processes' = <<>>
    /\ h_pc' = "none"
    /\ IF pc \in {"submit", "collect"}
       THEN pc' = "pool_shutdown" /\ UNCHANGED exit_code
       ELSE pc' = "exited" /\ exit_code' = 0
    /\ UNCHANGED <<inputVars, selVars, run, first_result, vmtouch_ok, max_workers,
                   poolVars, child, term_sent, kill_sent, locked_dirs, attempts,
                   spawned, signalled, h_idx, result>>

\* shutdown(wait=True) has joined the pool threads, which first ran every
\* work item still queued; SystemExit(0) then ends the process
PoolShutdown ==
    /\ MainAt("pool_shutdown")
    /\ work_queue = <<>>
    /\ \A w \in 1..PoolSize : worker[w].pc = "idle"
    /\ pc' = "exited"
    /\ exit_code' = 0
    /\ UNCHANGED <<inputVars, selVars, run, first_result, vmtouch_ok, max_workers,
                   poolVars, procVars, sigVars, result>>

Next ==
    \/ CheckDependencies
    \/ LoadConfig
    \/ Prioritize
    \/ SelectBegin
    \/ SelectStep
    \/ SelectReturn
    \/ StartLocking
    \/ Submit
    \/ SubmitDone
    \/ \E w \in 1..PoolSize : WorkerTake(w)
    \/ \E w \in 1..PoolSize : WorkerPopen(w)
    \/ \E w \in 1..PoolSize : WorkerPopenFails(w)
    \/ \E w \in 1..PoolSize : WorkerAppend(w)
    \/ \E w \in 1..PoolSize : WorkerCommunicate(w)
    \/ \E d \in DOMAIN child : ChildExit(d)
    \/ Collect
    \/ CollectDone
    \/ MainExit
    \/ SignalArrives
    \/ CleanupNext
    \/ CleanupWaited
    \/ CleanupKill
    \/ CleanupLoopEnd
    \/ CleanupDone
    \/ PoolShutdown

Spec == Init /\ [][Next]_vars

\* a step of the main thread in preload_applications and main
MainStep ==
    \/ CheckDependencies
    \/ LoadConfig
    \/ Prioritize
    \/ SelectBegin
    \/ SelectStep
    \/ SelectReturn
    \/ StartLocking
    \/ Submit
    \/ SubmitDone
    \/ Collect
    \/ CollectDone
    \/ MainExit
    \/ PoolShutdown

\* a step of the main thread in _signal_handler
HandlerStep ==
    \/ CleanupNext
    \/ CleanupWaited
    \/ CleanupKill
    \/ CleanupLoopEnd
    \/ CleanupDone

\* a step of pool thread w
WorkerStep(w) ==
    /\ w \in DOMAIN worker
    /\ \/ WorkerTake(w)
       \/ WorkerPopen(w)
       \/ WorkerPopenFails(w)
       \/ WorkerAppend(w)
       \/ WorkerCommunicate(w)

\* the child of d exits: vmtouch ends, or the timeout command stops it
ChildStep(d) == d \in DOMAIN child /\ ChildExit(d)

\* Every thread that can run is scheduled in the end and every child that
\* was started exits in the end; whether a signal is delivered is left open.
Fairness ==
    /\ WF_vars(MainStep)
    /\ WF_vars(HandlerStep)
    /\ \A w \in 1..MaxWorkers : WF_vars(WorkerStep(w))
    /\ \A d \in 1..MaxDirs : WF_vars(ChildStep(d))

\* The runs whose termination is explored: the directories and the pool
\* threads together number at most MaxFairLoad.
InitFair ==
    /\ Init
    /\ Len(fs_size) + max_workers <= MaxFairLoad

FairSpec == InitFair /\ [][Next]_vars /\ Fairness

\* ------------------------------------------------- properties: selection

RecordPaths(s) == {s[k].path : k \in 1..Len(s)}

IsAccepted(line) == line.status = "SELECTED"

\* the records whose paths are in selected_dirs
SelectedRecords == SelectSeq(dir_info_list, LAMBDA d : d.path \in Paths(selected_dirs))

\* the sizes accepted by the first k decisions
AcceptedBefore(k) == SumSizes(SelectSeq(SubSeq(decisions, 1, k - 1), IsAccepted))

\* select_directories_within_limit has returned
WalkFinished ==
    \/ pc \in {"selected", "submit", "collect", "pool_shutdown"}
    \/ pc \in {"main_exit", "exited"} /\ result # "none" /\ vmtouch_ok
                                      /\ Len(fs_size) > 0

WalkStarted == pc = "select_loop" \/ WalkFinished

\* C1: the selected total never exceeds the budget and is exactly the sum of
\* the sizes of the records whose paths were selected.
C1_TotalWithinBudget ==
    WalkStarted =>
        /\ total_size <= memory_limit
        /\ total_size = SumSizes(SelectedRecords)
        /\ \A k \in 1..Len(dir_info_list) : dir_info_list[k].size > 0

C1_Witness ==
    /\ WalkFinished
    /\ Len(selected_dirs) >= 2
    /\ Len(selected_dirs) < Len(dir_info_list)
    /\ total_size < memory_limit

\* C2: a step of the walk visits the record at the walk position, accepts it
\* exactly when the running total plus its size is at most the budget, adds
\* its size on acceptance, leaves earlier verdicts alone and moves on by one;
\* the running total is 0 when the first record is visited.
C2_Visit ==
    LET d == dir_info_list[walk_idx]
        fits == total_size + d.size <= memory_limit
    IN /\ walk_idx' = walk_idx + 1
       /\ decisions' = Append(decisions, LogLine(d, IF fits THEN "SELECTED" ELSE "SKIPPED"))
       /\ selected_dirs' = IF fits THEN Append(selected_dirs, d.path) ELSE selected_dirs
       /\ total_size' = IF fits THEN total_size + d.size ELSE total_size
       /\ walk_idx = 1 => total_size = 0

C2_SinglePassGreedy ==
    [][(pc = "select_loop" /\ selVars' # selVars) => C2_Visit]_vars

C2_Witness ==
    /\ WalkFinished
    /\ \E k \in 1..Len(decisions) :
          /\ decisions[k].status = "SELECTED"
          /\ AcceptedBefore(k) > 0
          /\ AcceptedBefore(k) + decisions[k].size = memory_limit
    /\ \E k \in 1..Len(decisions) : decisions[k].status = "SKIPPED"

\* C3: the walk evaluates every record of positive size in priority
\* ascending, then size descending order, and selected_dirs is the accepted
\* paths in that order.
C3_EvaluationOrder ==
    WalkStarted =>
        /\ \A i, j \in 1..Len(dir_info_list) :
              i < j =>
                 \/ dir_info_list[i].priority < dir_info_list[j].priority
                 \/ /\ dir_info_list[i].priority = dir_info_list[j].priority
                    /\ dir_info_list[i].size >= dir_info_list[j].size
        /\ RecordPaths(dir_info_list) = {d \in 1..Len(fs_size) : fs_size[d] > 0}
        /\ Len(dir_info_list) = Cardinality(RecordPaths(dir_info_list))
        /\ \A k \in 1..Len(decisions) : decisions[k].path = dir_info_list[k].path
        /\ LET accepted == SelectSeq(decisions, IsAccepted)
           IN selected_dirs = [k \in 1..Len(accepted) |-> accepted[k].path]

C3_Witness ==
    /\ WalkFinished
    /\ Len(selected_dirs) >= 2
    /\ \E a, b \in 1..Len(fs_size) :
          a < b /\ a \notin app_dirs /\ b \in app_dirs /\ fs_size[a] > fs_size[b]
                /\ fs_size[b] > 0
    /\ \E a, b \in 1..Len(fs_size) :
          a < b /\ a \in app_dirs /\ b \in app_dirs /\ 0 < fs_size[a]
                /\ fs_size[a] < fs_size[b]

\* C4: a skipped record does not end the walk: every record gets a verdict,
\* a record is skipped only if it does not fit what is left at its turn, and
\* Scenario A selects paths 1 and 3 for a total of 150.
C4_SkipDoesNotEndWalk ==
    WalkFinished =>
        /\ Len(decisions) = Len(dir_info_list)
        /\ \A k \in 1..Len(decisions) :
              AcceptedBefore(k) + decisions[k].size <= memory_limit
                 => decisions[k].status = "SELECTED"
        /\ ScenarioA => selected_dirs = <<1, 3>> /\ total_size = 150

C4_Witness ==
    /\ WalkFinished
    /\ ScenarioA
    /\ decisions[2].status = "SKIPPED"
    /\ decisions[3].status = "SELECTED"

\* C5: a budget of at least the sum of all candidate sizes accepts every
\* candidate and skips none.
C5_LargeBudgetSelectsAll ==
    (WalkFinished /\ memory_limit >= SumSizes(dir_info_list)) =>
        /\ selected_dirs = [k \in 1..Len(dir_info_list) |-> dir_info_list[k].path]
        /\ Len(decisions) = Len(dir_info_list)
        /\ \A k \in 1..Len(decisions) : decisions[k].status # "SKIPPED"

C5_Witness ==
    /\ WalkFinished
    /\ Len(dir_info_list) >= 2
    /\ memory_limit = SumSizes(dir_info_list)

\* C6: a budget below the smallest candidate size accepts nothing, and a
\* record larger than the budget is never admitted.
C6_SmallBudgetSelectsNone ==
    WalkFinished =>
        /\ (\A k \in 1..Len(dir_info_list) : memory_limit < dir_info_list[k].size) =>
              /\ selected_dirs = <<>>
              /\ total_size = 0
              /\ Len(decisions) = Len(dir_info_list)
              /\ \A k \in 1..Len(decisions) : decisions[k].status = "SKIPPED"
        /\ \A k \in 1..Len(dir_info_list) :
              dir_info_list[k].size > memory_limit =>
                 dir_info_list[k].path \notin Paths(selected_dirs)

C6_Witness ==
    /\ WalkFinished
    /\ Len(dir_info_list) >= 2
    /\ memory_limit > 0
    /\ \A k \in 1..Len(dir_info_list) : memory_limit < dir_info_list[k].size

\* C7: records with equal (priority, size) keys keep their input order, and
\* a second prioritize and select on the same inputs returns and logs what
\* the first one did.
C7_StableAndRepeatable ==
    /\ WalkStarted =>
          \A i, j \in 1..Len(dir_info_list) :
             (/\ i < j
              /\ dir_info_list[i].priority = dir_info_list[j].priority
              /\ dir_info_list[i].size = dir_info_list[j].size)
                => dir_info_list[i].path < dir_info_list[j].path
    /\ (WalkFinished /\ run = 2) =>
          first_result = <<selected_dirs, total_size, decisions>>

C7_Witness ==
    /\ WalkFinished
    /\ run = 2
    /\ selected_dirs # <<>>
    /\ Len(selected_dirs) < Len(dir_info_list)
    /\ \E i, j \in 1..Len(dir_info_list) :
          /\ i < j
          /\ dir_info_list[i].priority = dir_info_list[j].priority
          /\ dir_info_list[i].size = dir_info_list[j].size

\* ------------------------------------------------------ properties: run

\* the paths executor.submit was called for
SubmittedPaths == {selected_dirs[k] : k \in 1..(submit_idx - 1)}

OutcomePaths == {outcomes[k].path : k \in 1..Len(outcomes)}

\* C8: when the process has exited, the as_completed loop has yielded exactly
\* one outcome for every submitted path, whether operations timed out or a
\* shutdown signal terminated them.
C8_OneOutcomePerPath ==
    pc = "exited" =>
        /\ Len(outcomes) = Cardinality(SubmittedPaths)
        /\ OutcomePaths = SubmittedPaths

\* What the code does give: a run that preload_applications returns from has
\* one outcome per selected path, timeouts included.
OutcomesCompleteOnReturn ==
    (result # "none" /\ WalkFinished) =>
        /\ Len(outcomes) = Len(selected_dirs)
        /\ OutcomePaths = Paths(selected_dirs)

\* C9: the children started and not yet exited never outnumber max_workers.
C9_LiveChildrenBounded == Cardinality(LiveChildren) <= max_workers

C9_Witness ==
    /\ Cardinality(LiveChildren) = max_workers
    /\ work_queue # <<>>

\* C10: _lock_directory is called at most once per path and only for
\* selected paths, it starts at most one child, a failed or timed-out path is
\* not attempted again, and when preload_applications returns every selected
\* path has had its attempt.
C10_AttemptedOnce ==
    /\ \A d \in DOMAIN attempts :
          /\ attempts[d] <= 1
          /\ spawned[d] <= attempts[d]
          /\ attempts[d] > 0 => d \in Paths(selected_dirs)
    /\ (result # "none" /\ WalkFinished) =>
          \A d \in Paths(selected_dirs) : attempts[d] = 1

C10_Witness ==
    /\ pc = "exited"
    /\ ~signalled
    /\ result = "False"
    /\ \E d, e \in Paths(selected_dirs) :
          /\ child[d] = "rc124"
          /\ spawned[e] = 0
          /\ attempts[e] = 1

\* the children whose Popen object a worker has appended to self.processes
Appended ==
    {d \in DOMAIN child :
        /\ spawned[d] > 0
        /\ \A w \in 1..PoolSize : ~(worker[w].dir = d /\ worker[w].pc = "append")}

C12_SignalFindsEveryLiveChild ==
    /\ \A d \in LiveChildren : d \in Paths(processes)
    /\ (signalled /\ h_pc = "none") => LiveChildren \subseteq term_sent

\* C13: once the signal has been received, no pool thread starts
\* _lock_directory for a further path.
C13_NoDispatchAfterSignal ==
    [][signalled => attempts' = attempts]_vars

\* C14: a run the shutdown signal aborted before preload_applications
\* returned exits with a status other than 0.
C14_AbortExitsNonZero ==
    (pc = "exited" /\ signalled /\ result = "none") => exit_code # 0

\* C15: a run that ends without a signal returns True and exits with status
\* 0 exactly when the dependency was there, at least one directory was
\* selected and every selected path was locked; otherwise it returns False
\* and exits with status 1.
C15_SuccessIffAllLocked ==
    (pc = "exited" /\ ~signalled) =>
        /\ result \in {"True", "False"}
        /\ exit_code = (IF result = "True" THEN 0 ELSE 1)
        /\ result = "True" <=>
              /\ vmtouch_ok
              /\ WalkFinished
              /\ selected_dirs # <<>>
              /\ success_count = Len(selected_dirs)
              /\ \A d \in Paths(selected_dirs) : child[d] = "rc0" /\ d \in locked_dirs

C15_Witness ==
    /\ pc = "exited"
    /\ ~signalled
    /\ exit_code = 0
    /\ Len(selected_dirs) >= 2

\* C16: with the dependency missing, with no directory configured or with
\* nothing selected, _lock_directory is never called, no child is started,
\* nothing is submitted to a pool, locked_dirs stays empty and the run
\* returns False.
RunLevelFailure ==
    \/ ~vmtouch_ok
    \/ Len(fs_size) = 0
    \/ WalkFinished /\ selected_dirs = <<>>

C16_FailFast ==
    RunLevelFailure =>
        /\ \A d \in DOMAIN attempts : attempts[d] = 0 /\ spawned[d] = 0
        /\ submit_idx = 1
        /\ work_queue = <<>>
        /\ locked_dirs = {}
        /\ result # "True"
        /\ ~vmtouch_ok => dir_info_list = <<>>
        /\ (pc = "exited" /\ ~signalled) => result = "False" /\ exit_code = 1

C16_Witness ==
    /\ pc = "exited"
    /\ ~signalled
    /\ ~vmtouch_ok
    /\ Len(fs_size) >= 2
    /\ get_memory_limit >= 2

\* a directory has been submitted to the pool
LockingBegun == submit_idx > 1

\* C17: nothing is submitted, attempted or spawned before every candidate
\* has its verdict, and once a directory has been submitted the selection
\* result and the budget no longer change.
C17_SelectionBeforeLocking ==
    /\ [](/\ (\E d \in DOMAIN attempts : attempts[d] > 0 \/ spawned[d] > 0)
               => LockingBegun
          /\ LockingBegun =>
                /\ walk_idx > Len(dir_info_list)
                /\ Len(decisions) = Len(dir_info_list)
                /\ RecordPaths(decisions) = {d \in 1..Len(fs_size) : fs_size[d] > 0})
    /\ [][LockingBegun =>
             UNCHANGED <<dir_info_list, memory_limit, walk_idx, selected_dirs,
                         total_size, decisions>>]_vars

C17_Witness ==
    /\ LiveChildren # {}
    /\ \E k \in 1..Len(decisions) : decisions[k].status = "SKIPPED"
    /\ Len(selected_dirs) >= 2

\* C18: the result of a path is True exactly when its own child exited with
\* status zero, whatever happened to the other paths; a failure leaves the
\* remaining paths queued, so that once everything is submitted and the
\* queue is empty every selected path has been attempted, and a run that
\* returns has an outcome for each of them.
C18_FailuresIsolated ==
    /\ \A d \in DOMAIN future :
          Finished(d) => (future[d] = "True" <=> child[d] = "rc0")
    /\ \A k \in 1..Len(outcomes) :
          outcomes[k].success <=> child[outcomes[k].path] = "rc0"
    /\ (submit_idx > Len(selected_dirs) /\ work_queue = <<>>) =>
          \A d \in Paths(selected_dirs) : attempts[d] = 1
    /\ (result # "none" /\ WalkFinished) => Len(outcomes) = Len(selected_dirs)

C18_Witness ==
    /\ result = "False"
    /\ max_workers = 1
    /\ Len(outcomes) = 2
    /\ child[outcomes[1].path] = "rc1"
    /\ ~outcomes[1].success
    /\ outcomes[2].success

\* what an outcome says besides the path it is for
OutcomeContent(o) == [f \in DOMAIN o \ {"path"} |-> o[f]]

C20_EmptyDirectoriesExcluded ==
    \A d \in 1..Len(fs_size) :
       fs_size[d] <= 0 =>
          /\ d \notin RecordPaths(dir_info_list)
          /\ d \notin RecordPaths(decisions)
          /\ d \notin Paths(selected_dirs)

C20_Witness ==
    /\ WalkFinished
    /\ \E d \in 1..Len(fs_size) : fs_size[d] = 0
    /\ selected_dirs # <<>>
    /\ total_size < memory_limit

\* C21: a record handed to selection, and the line logged for it, has
\* priority 1 and source "app" exactly when its directory is one of the
\* application directories, and priority 2 and source "resource" otherwise.
C21_PriorityFollowsSource ==
    /\ \A k \in 1..Len(dir_info_list) :
          LET r == dir_info_list[k]
          IN /\ <<r.priority, r.source>> \in {<<1, "app">>, <<2, "resource">>}
             /\ r.priority = 1 <=> r.path \in app_dirs
             /\ r.source = "app" <=> r.path \in app_dirs
    /\ \A k \in 1..Len(decisions) :
          /\ decisions[k].priority = (IF decisions[k].path \in app_dirs THEN 1 ELSE 2)
          /\ decisions[k].source =
                (IF decisions[k].path \in app_dirs THEN "app" ELSE "resource")

C21_Witness ==
    /\ WalkFinished
    /\ \E j, k \in 1..Len(dir_info_list) :
          /\ dir_info_list[j].source = "app"
          /\ dir_info_list[k].source = "resource"
          /\ dir_info_list[k].size > dir_info_list[j].size
    /\ \E d \in app_dirs : fs_size[d] = 0

\* C22: the logged verdicts are the records evaluated so far, one line per
\* record in evaluation order with the record's own fields, marked SELECTED
\* exactly when the path is in selected_dirs and SKIPPED otherwise; when
\* the walk has finished no record is without its line.
C22_DecisionTrailComplete ==
    WalkStarted =>
        /\ Len(decisions) = walk_idx - 1
        /\ Len(decisions) <= Len(dir_info_list)
        /\ \A k \in 1..Len(decisions) :
              \E status \in {"SELECTED", "SKIPPED"} :
                 /\ decisions[k] = [path |-> dir_info_list[k].path,
                                    priority |-> dir_info_list[k].priority,
                                    source |-> dir_info_list[k].source,
                                    size |-> dir_info_list[k].size,
                                    status |-> status]
                 /\ status = "SELECTED" <=> decisions[k].path \in Paths(selected_dirs)
        /\ Cardinality(RecordPaths(decisions)) = Len(decisions)
        /\ Paths(selected_dirs) \subseteq RecordPaths(decisions)
        /\ WalkFinished => Len(decisions) = Len(dir_info_list)

C22_Witness ==
    /\ WalkFinished
    /\ Len(decisions) = 3
    /\ decisions[1].status = "SKIPPED"
    /\ decisions[2].status = "SELECTED"
    /\ decisions[3].status = "SKIPPED"

C24_RegistryAccessExclusive ==
    [][/\ (h_pc # "none" /\ processes' # processes) =>
             (h_pc = "clear" /\ processes' = <<>>)
       /\ (h_pc = "clear" /\ h_pc' = "none") =>
             \A d \in Paths(processes) : child[d] = "running" => d \in term_sent]_vars

\* C25: _cleanup_processes sends terminate only to the registered child it
\* is at and only if that child is still running, sends kill only to a child
\* it has sent terminate and that is still running when the wait of 5
\* seconds ends, goes on to the next child only when the one it is at has
\* exited, and sends nothing to a child that had exited when it came to it.
C25_TerminateThenKill ==
    /\ [](/\ kill_sent \subseteq term_sent
          /\ h_pc \in {"wait", "killwait"} => processes[h_idx] \in term_sent
          /\ h_pc = "killwait" => processes[h_idx] \in kill_sent
          /\ \A d \in term_sent : spawned[d] > 0)
    /\ [][/\ term_sent' # term_sent =>
                /\ h_pc = "loop" /\ h_pc' = "wait"
                /\ child[processes[h_idx]] = "running"
                /\ term_sent' = term_sent \cup {processes[h_idx]}
                /\ kill_sent' = kill_sent
          /\ kill_sent' # kill_sent =>
                /\ h_pc = "wait" /\ h_pc' = "killwait"
                /\ child[processes[h_idx]] = "running"
                /\ processes[h_idx] \in term_sent
                /\ kill_sent' = kill_sent \cup {processes[h_idx]}
          /\ (h_pc # "none" /\ h_idx' # h_idx) =>
                /\ h_idx' = h_idx + 1
                /\ child[processes[h_idx]] # "running"
          /\ (h_pc = "loop" /\ h_pc' # h_pc /\ h_idx <= Len(processes)) =>
                processes[h_idx] \in term_sent']_vars

C25_Witness ==
    /\ h_pc = "killwait"
    /\ h_idx = 2
    /\ processes[1] \notin term_sent
    /\ child[processes[2]] = "signal"

\* the positions of preload_applications before the with block
PreExecution ==
    {"check_deps", "load_config", "prioritize", "select_begin", "select_loop",
     "selected"}

\* C26: when the signal is delivered while preload_applications is at the
\* dependency check, the configuration loading or the selection, the main
\* thread is in the handler, which has nothing to clean up and can go on;
\* preload_applications does not advance, the next position is the exit,
\* and at no time is a directory submitted, _lock_directory called, a child
\* started or a path put into locked_dirs.
C26_EarlySignalSpawnsNothing ==
    /\ []((signalled /\ pc \in PreExecution) =>
             /\ h_pc \in {"loop", "clear"}
             /\ ENABLED (CleanupLoopEnd \/ CleanupDone)
             /\ processes = <<>>
             /\ submit_idx = 1
             /\ work_queue = <<>>
             /\ \A d \in DOMAIN attempts : attempts[d] = 0 /\ spawned[d] = 0
             /\ LiveChildren = {}
             /\ locked_dirs = {}
             /\ result = "none")
    /\ [][(signalled /\ pc \in PreExecution) =>
             /\ pc' = pc \/ pc' = "exited"
             /\ UNCHANGED <<selVars, poolVars, procVars>>]_vars
    /\ [][pc = "exited" =>
             UNCHANGED <<submit_idx, work_queue, attempts, spawned, locked_dirs>>]_vars

C26_Witness ==
    /\ signalled
    /\ pc = "selected"
    /\ h_pc = "clear"
    /\ Len(selected_dirs) >= 2

\* C27: with every runnable thread scheduled in the end and every started
\* child exiting in the end, the process exits; after a signal it exits with
\* no pool thread left in _lock_directory and no work item left queued, and
\* a run no signal was delivered to has returned, with every selected path
\* attempted once, its result collected and the successes counted.
C27_RunEventuallyFinishes ==
    /\ <>(pc = "exited")
    /\ signalled ~> (pc = "exited")
    /\ [](pc = "exited" =>
             /\ \A w \in DOMAIN worker : worker[w].pc = "idle"
             /\ work_queue = <<>>
             /\ h_pc = "none"
             /\ \A d \in DOMAIN child : attempts[d] > 0 => Finished(d))
    /\ []((pc = "exited" /\ ~signalled) =>
             /\ result \in {"True", "False"}
             /\ (vmtouch_ok /\ Len(fs_size) > 0) =>
                   /\ \A d \in Paths(selected_dirs) : attempts[d] = 1 /\ Finished(d)
                   /\ OutcomePaths = Paths(selected_dirs)
                   /\ Len(outcomes) = Len(selected_dirs)
                   /\ success_count =
                         Cardinality({d \in Paths(selected_dirs) : future[d] = "True"}))

C27_Witness ==
    /\ pc = "exited"
    /\ signalled
    /\ result = "none"
    /\ kill_sent # {}
    /\ \E d \in DOMAIN child : spawned[d] > 0 /\ d \notin term_sent

====
